---- MODULE Spec2Model ----
(***************************************************************************)
(* Model of the Seplos BMS 2.0 request/response engine, bms_command() in   *)
(* seplos.c, together with the hex codec and the two checksums it uses.    *)
(*                                                                         *)
(* Bytes are integers 0..255.  A frame is a sequence of bytes; position k  *)
(* of a sequence is offset k-1 of the C structure Seplos_2_0 (start is     *)
(* offset 0, version 1..2, address 3..4, device 5..6, function 7..8,       *)
(* length 9..12, info from offset 13).                                     *)
(*                                                                         *)
(* Platform facts the model fixes (x86-64 Linux, gcc): char is signed,     *)
(* uint16_t stores are little-endian, unsigned int is 32 bits.             *)
(***************************************************************************)
EXTENDS Integers, Sequences, FiniteSets, TLC

VARIABLES
  pc,        \* position of the caller / of bms_command
  calls,     \* number of bms_command invocations started so far
  req,       \* arguments of the current invocation: address, command, info, info_length
  s,         \* Seplos_2_0_binary s (request header in binary)
  r,         \* Seplos_2_0_binary r (what the code takes for the response header)
  encoded,   \* Seplos_2_0 encoded, first info_length + 18 bytes
  i,         \* the pointer i, as its distance past encoded.info + info_length + 5
  j,         \* the loop variable j of the validation loop
  invalid,   \* the flag "invalid"
  ret,       \* last value returned by write()/read()
  result,    \* the caller's result frame, first ResultLen bytes
  result0,   \* contents of the caller's result frame at entry
  rv,        \* <<v>> once bms_command returned v, <<>> before
  diag,      \* diagnostic bms_command printed on stderr for its return
  trace,     \* transport operations of the current invocation, in order, each with
             \* the byte count asked for (n) and the value the operation returned (got)
  wire,      \* bytes pending in the serial input queue
  peer,      \* bytes of the peer's reply that are still on their way
  reply,     \* the reply the peer chose for the current request
  alarm,     \* seconds of the pending alarm(), 0 when none is armed
  handler,   \* disposition of SIGALRM
  unit       \* a codec function applied on its own to one input, with its result;
             \* not used (NoUnit) in the behaviours of bms_command

vars == <<pc, calls, req, s, r, encoded, i, j, invalid, ret, result, result0,
          rv, diag, trace, wire, peer, reply, alarm, handler, unit>>

(***************************************************************************)
(* Bounds of the model.                                                    *)
(***************************************************************************)
MaxCalls == 2      \* invocations of bms_command in one behaviour
MaxInfo == 2       \* longest short info payload that is enumerated byte by byte
PtrWrap == 3       \* stand-in for the width of the pointer i (it wraps when incremented)

(***************************************************************************)
(* Program constants.                                                      *)
(***************************************************************************)
HeaderLen == 18          \* read(fd, result, 18), ret < 18
AlarmSecs == 10          \* alarm(10)
TailOffset == 5          \* &(result->info[5])
InfoOffset == 13         \* offsetof(Seplos_2_0, info)
InfoSize == 4100         \* char info[4095 + 4 + 1]
FrameSize == InfoOffset + InfoSize    \* sizeof(Seplos_2_0)
PROTOCOL_VER_GET == 79   \* 0x4F
TELEMETERY_GET == 66     \* 0x42
NORMAL == 0
CHECKSUM_ERROR == 2

NoValue == "none"

hex == <<48, 49, 50, 51, 52, 53, 54, 55, 56, 57, 65, 66, 67, 68, 69, 70>>

(***************************************************************************)
(* Small helpers.                                                          *)
(***************************************************************************)
Min(a, b) == IF a < b THEN a ELSE b

Take(seq, n) == SubSeq(seq, 1, Min(n, Len(seq)))

Drop(seq, n) == SubSeq(seq, Min(n, Len(seq)) + 1, Len(seq))

Fill(n, b) == [k \in 1..n |-> b]

\* seq with the bytes of data stored from offset off on (memcpy / read into a buffer);
\* bytes that fall outside the modelled part of the buffer are not represented
Store(seq, off, data) ==
  [k \in 1..Len(seq) |->
     IF k - 1 >= off /\ k - 1 < off + Len(data) THEN data[k - off] ELSE seq[k]]

(***************************************************************************)
(* Hex codec: hex2, hex4 (encode), hex1b, hex2b, hex4b (decode).           *)
(* The decoders return the value together with the invalid flag.           *)
(***************************************************************************)
hex2(value) ==
  << hex[((value \div 16) % 16) + 1], hex[(value % 16) + 1] >>

hex4(value) ==
  << hex[((value \div 4096) % 16) + 1], hex[((value \div 256) % 16) + 1],
     hex[((value \div 16) % 16) + 1], hex[(value % 16) + 1] >>

hex1b(c, inv) ==
  IF c >= 48 /\ c <= 57 THEN [val |-> c - 48, invalid |-> inv]
  ELSE IF c >= 97 /\ c <= 102 THEN [val |-> (c - 97 + 16) % 256, invalid |-> inv]
  ELSE IF c >= 65 /\ c <= 70 THEN [val |-> (c - 65 + 16) % 256, invalid |-> inv]
  ELSE [val |-> 0, invalid |-> TRUE]

\* a || b of C: b is evaluated only when a is zero; the result is 0 or 1
LogicalOr(a, b) ==
  IF a.val # 0 THEN [val |-> 1, invalid |-> a.invalid]
  ELSE [val |-> IF b.val # 0 THEN 1 ELSE 0, invalid |-> b.invalid]

hex2b(ascii, inv) ==
  LET a == hex1b(ascii[1], inv)
      hi == [val |-> a.val * 16, invalid |-> a.invalid]
  IN LogicalOr(hi, hex1b(ascii[2], hi.invalid))

\* variant of hex4b that adds the shifted nibbles instead of joining them with ||
hex4b_sum(ascii, inv) ==
  LET a == hex1b(ascii[1], inv)
      b == hex1b(ascii[2], a.invalid)
      c == hex1b(ascii[3], b.invalid)
      d == hex1b(ascii[4], c.invalid)
  IN [val |-> (a.val * 4096 + b.val * 256 + c.val * 16 + d.val) % 65536,
      invalid |-> d.invalid]

hex4b(ascii, inv) ==
  LET a == hex1b(ascii[1], inv)
      n3 == [val |-> a.val * 4096, invalid |-> a.invalid]
      b == hex1b(ascii[2], n3.invalid)
      n2 == [val |-> b.val * 256, invalid |-> b.invalid]
      o1 == LogicalOr(n3, n2)
      c == hex1b(ascii[3], o1.invalid)
      n1 == [val |-> c.val * 16, invalid |-> c.invalid]
      o2 == LogicalOr(o1, n1)
  IN LogicalOr(o2, hex1b(ascii[4], o2.invalid))

(***************************************************************************)
(* Checksums.                                                              *)
(***************************************************************************)
\* variant of length_checksum that leaves out the + 1 (one's complement)
length_checksum_no_increment(length) ==
  LET sum == ((length \div 256) % 16) + ((length \div 16) % 16) + (length % 16)
      neg == 65535 - (sum % 256)
      shifted == (neg * 4096) % 65536
  IN (shifted \div 4096) * 4096

\* (((~(sum & 0xff)) + 1) << 12) & 0xf000 in 32-bit unsigned arithmetic: the mask
\* keeps bits 12..15 of the shifted value, i.e. the low nibble of -(sum & 0xff).
length_checksum(length) ==
  LET sum == ((length \div 256) % 16) + ((length \div 16) % 16) + (length % 16)
      neg == (65536 - (sum % 256)) % 65536
      shifted == (neg * 4096) % 65536
  IN (shifted \div 4096) * 4096

\* length_checksum(n) | (n & 0x0fff) stored in the uint16_t s.length, line 182; the
\* two operands have no bit in common, so that | is +
length_field(n) == (length_checksum(n) + (n % 4096)) % 65536

\* value of a char holding byte b (char is signed)
SChar(b) == IF b >= 128 THEN b - 256 ELSE b

RECURSIVE SumRange(_, _, _)
SumRange(data, lo, hi) ==
  IF lo > hi THEN 0
  ELSE IF lo = hi THEN SChar(data[lo])
  ELSE LET mid == (lo + hi) \div 2
       IN SumRange(data, lo, mid) + SumRange(data, mid + 1, hi)

\* (~sum) + 1 as a 32-bit unsigned value is 2^32 - sum (0 when sum = 0); it is kept
\* here as the pair (low 16 bits, whether the upper 16 bits are all zero)
overall_checksum(data, length) ==
  LET sum == SumRange(data, 1, length)
  IN [low |-> (0 - sum) % 65536, small |-> (sum <= 0 /\ sum > 0 - 65536)]

(***************************************************************************)
(* Inputs: the requests a caller makes and the replies a peer sends.       *)
(***************************************************************************)
Addresses == {0, 1}

Commands == {PROTOCOL_VER_GET, TELEMETERY_GET}

InfoBytes == {0, 48}

\* payloads at the two sides of the 12-bit limit of the length field (2 * 2047 <= 0xFFF)
\* and the longest one the assert at line 191 lets through
LongInfos == {Fill(2047, 48), Fill(2048, 48), Fill(4095, 48)}

Infos == UNION {[1..n -> InfoBytes] : n \in 0..MaxInfo} \cup LongInfos

\* a frame as the protocol document lays it out, every field given by the peer
PeerFrame(start, address, function, lengthField, info, cksum) ==
  <<start>> \o hex2(32) \o hex2(address) \o hex2(70) \o hex2(function)
            \o hex4(lengthField) \o info \o hex4(cksum) \o <<13>>

\* the checksum a peer computes: 16-bit negated sum of the characters version..info
PeerChecksum(address, function, lengthField, info) ==
  LET body == hex2(32) \o hex2(address) \o hex2(70) \o hex2(function)
              \o hex4(lengthField) \o info
  IN (0 - SumRange(body, 1, Len(body))) % 65536

GoodFrame(address, function, info) ==
  LET lf == length_checksum(Len(info)) + Len(info)
  IN PeerFrame(126, address, function, lf, info, PeerChecksum(address, function, lf, info))

\* the info regions of a normal reply: "", "00", "A0", "0G", "G0"
PeerInfos == {<<>>, <<48, 48>>, <<65, 48>>, <<48, 71>>, <<71, 48>>}

Replies(address) ==
  {GoodFrame(address, NORMAL, inf) : inf \in PeerInfos}
  \cup {<<>>,
        GoodFrame(address, CHECKSUM_ERROR, <<48, 48>>),
        \* wrong start byte
        PeerFrame(120, address, NORMAL, 0, <<>>, PeerChecksum(address, NORMAL, 0, <<>>)),
        \* wrong length checksum (0xF002 instead of 0xE002)
        PeerFrame(126, address, NORMAL, 61442, <<48, 48>>,
                  PeerChecksum(address, NORMAL, 61442, <<48, 48>>)),
        \* wrong overall checksum
        PeerFrame(126, address, NORMAL, 57346, <<48, 48>>,
                  (PeerChecksum(address, NORMAL, 57346, <<48, 48>>) + 1) % 65536)}

\* sizes of the pieces in which the reply reaches the input queue
ChunkSizes == {6, 18, 24}

\* values write() may return for a request of len bytes
WriteReturns(len) == {n \in {0 - 1, 6, 17, 18, len - 1, len} : n <= len}

ResultLen == InfoOffset + TailOffset + 1

ZeroFrame == Fill(ResultLen, 0)

NoUnit == [fn |-> "none", arg |-> 0, val |-> 0, invalid |-> FALSE, done |-> FALSE]

ZeroBinary == [version |-> 0, address |-> 0, device |-> 0, function |-> 0, length |-> 0]

\* byte at offset off of the caller's result frame; the part of the frame that is
\* not modelled is never written and still holds its contents at entry
ResultByte(off) == IF off < ResultLen THEN result[off + 1] ELSE 0

(***************************************************************************)
(* bms_command, step by step.                                              *)
(***************************************************************************)
\* nothing has been called yet
Quiescent ==
  /\ pc = "idle"
  /\ calls = 0
  /\ req = [address |-> 0, command |-> 0, info |-> <<>>, info_length |-> 0]
  /\ s = ZeroBinary
  /\ r = ZeroBinary
  /\ encoded = <<>>
  /\ i = 0
  /\ j = 0
  /\ invalid = FALSE
  /\ ret = 0
  /\ result = ZeroFrame
  /\ result0 = ZeroFrame
  /\ rv = <<>>
  /\ diag = NoValue
  /\ trace = <<>>
  /\ wire = <<>>
  /\ peer = <<>>
  /\ reply = <<>>
  /\ alarm = 0
  /\ handler = "SIG_DFL"

Init ==
  /\ Quiescent
  /\ unit = NoUnit

\* the caller (seplos_protocol_version) hands a zeroed result frame to bms_command;
\* a caller issues its next command once the line is quiet, that is when no byte of
\* an earlier reply is still on its way (bytes that have arrived and were not read
\* stay in the input queue)
Call(address, command, info) ==
  /\ pc \in {"idle", "returned"}
  /\ calls < MaxCalls
  /\ peer = <<>>
  /\ calls' = calls + 1
  /\ req' = [address |-> address, command |-> command, info |-> info,
             info_length |-> Len(info)]
  /\ s' = ZeroBinary
  /\ r' = ZeroBinary
  /\ encoded' = <<>>
  /\ i' = 0
  /\ j' = 0
  /\ invalid' = FALSE
  /\ ret' = 0
  /\ result' = ZeroFrame
  /\ result0' = ZeroFrame
  /\ rv' = <<>>
  /\ diag' = NoValue
  /\ trace' = <<>>
  /\ reply' = <<>>
  /\ pc' = "encode"
  /\ UNCHANGED <<wire, peer, alarm, handler>>
  /\ UNCHANGED unit

\* the frame the encoder builds, lines 178-200
EncodeHeader(sb) ==
  <<126>> \o hex2(sb.version) \o hex2(sb.address) \o hex2(sb.device)
          \o hex2(sb.function) \o hex4(sb.length)

\* *(uint16_t *)i = v; i += 4: two raw bytes, low byte first, and two bytes left zero
ChecksumSlot(v) == << v % 256, (v \div 256) % 256, 0, 0 >>

EncodeFrame(sb, info, info_length) ==
  LET body == EncodeHeader(sb) \o SubSeq(info, 1, info_length)
      sum == overall_checksum(SubSeq(body, 2, Len(body)), info_length + 12)
  IN body \o ChecksumSlot(sum.low) \o <<13>>

Encode ==
  /\ pc = "encode"
  /\ LET sb == [version |-> 32,
                address |-> req.address % 256,
                device |-> 70,
                function |-> req.command % 256,
                length |-> length_field(req.info_length * 2)]
     IN /\ s' = sb
        /\ IF req.info_length < 4096
           THEN /\ encoded' = EncodeFrame(sb, req.info, req.info_length)
                /\ pc' = "flush"
           ELSE /\ encoded' = EncodeHeader(sb)
                /\ pc' = "aborted"
  /\ i' = 0
  /\ UNCHANGED <<calls, req, r, j, invalid, ret, result, result0, rv, diag, trace,
                 wire, peer, reply, alarm, handler>>
  /\ UNCHANGED unit

\* variant of Flush with TCOFLUSH: the input queue is left as it is
FlushOutputOnly ==
  /\ pc = "flush"
  /\ trace' = Append(trace, [op |-> "flush", n |-> 0, got |-> Min(Len(wire), 1)])
  /\ wire' = wire
  /\ pc' = "write"
  /\ UNCHANGED <<calls, req, s, r, encoded, i, j, invalid, ret, result, result0, rv,
                 diag, peer, reply, alarm, handler>>
  /\ UNCHANGED unit

\* tcflush(fd, TCIOFLUSH), line 202: the bytes pending in the input queue are
\* discarded; the record keeps whether there were any (0 or 1)
Flush ==
  /\ pc = "flush"
  /\ trace' = Append(trace, [op |-> "flush", n |-> 0, got |-> Min(Len(wire), 1)])
  /\ wire' = <<>>
  /\ pc' = "write"
  /\ UNCHANGED <<calls, req, s, r, encoded, i, j, invalid, ret, result, result0, rv,
                 diag, peer, reply, alarm, handler>>
  /\ UNCHANGED unit

Write ==
  /\ pc = "write"
  /\ \E n \in WriteReturns(req.info_length + 18) :
       /\ ret' = n
       /\ IF n < 18
          THEN /\ pc' = "exited"
               /\ diag' = "write to SEPLOS BMS"
               /\ UNCHANGED <<peer, reply>>
          ELSE /\ pc' = "drain"
               /\ diag' = diag
               /\ \E f \in Replies(req.address) :
                    /\ reply' = f
                    /\ peer' = f
  /\ trace' = Append(trace, [op |-> "write", n |-> req.info_length + 18, got |-> ret'])
  /\ UNCHANGED <<calls, req, s, r, encoded, i, j, invalid, result, result0, rv,
                 wire, alarm, handler>>
  /\ UNCHANGED unit

\* variant of Drain in which tcdrain(fd) is not called
DrainOmitted ==
  /\ pc = "drain"
  /\ pc' = "arm_header"
  /\ UNCHANGED <<calls, req, s, r, encoded, i, j, invalid, ret, result, result0, rv,
                 diag, trace, wire, peer, reply, alarm, handler>>
  /\ UNCHANGED unit

Drain ==
  /\ pc = "drain"
  /\ trace' = Append(trace, [op |-> "drain", n |-> 0, got |-> 0])
  /\ pc' = "arm_header"
  /\ UNCHANGED <<calls, req, s, r, encoded, i, j, invalid, ret, result, result0, rv,
                 diag, wire, peer, reply, alarm, handler>>
  /\ UNCHANGED unit

\* return v; with the message d that went to stderr on this path
Return(v, d) ==
  /\ rv' = <<v>>
  /\ diag' = d
  /\ pc' = "returned"

\* signal(SIGALRM, got_alarm); alarm(10);
Arm ==
  /\ handler' = "got_alarm"
  /\ alarm' = AlarmSecs

\* variant of Disarm in which alarm(0) is not called
DisarmKeepsAlarm ==
  /\ alarm' = alarm
  /\ handler' = "SIG_DFL"

\* alarm(0); signal(SIGALRM, SIG_DFL);
Disarm ==
  /\ alarm' = 0
  /\ handler' = "SIG_DFL"

\* read(fd, buf, n) where buf is offset off of the result frame: it returns the bytes
\* pending in the input queue, at most n of them.  With nothing pending it blocks; it
\* then returns -1 when the call fails or when the alarm interrupts it (EINTR).  With
\* signal() as glibc defines it the handler is installed with SA_RESTART and the call
\* is resumed after the alarm: in that case the step is simply not taken while the
\* queue is empty.
Read(off, n) ==
  /\ IF n = 0
     THEN /\ ret' = 0
          /\ UNCHANGED <<result, wire>>
     ELSE IF wire # <<>>
     THEN /\ ret' = Min(n, Len(wire))
          /\ result' = Store(result, off, Take(wire, n))
          /\ wire' = Drop(wire, n)
     ELSE /\ ret' = 0 - 1
          /\ UNCHANGED <<result, wire>>
  /\ trace' = Append(trace, [op |-> "read", n |-> n, got |-> ret'])

\* the armed alarm expires: SIGALRM is delivered; got_alarm does nothing, the default
\* disposition ends the process
AlarmFires ==
  /\ alarm > 0
  /\ alarm' = 0
  /\ pc' = IF handler = "SIG_DFL" THEN "killed" ELSE pc
  /\ UNCHANGED <<calls, req, s, r, encoded, i, j, invalid, ret, result, result0, rv,
                 diag, trace, wire, peer, reply, handler>>
  /\ UNCHANGED unit

ArmHeader ==
  /\ pc = "arm_header"
  /\ Arm
  /\ pc' = "read_header"
  /\ UNCHANGED <<calls, req, s, r, encoded, i, j, invalid, ret, result, result0, rv,
                 diag, trace, wire, peer, reply>>
  /\ UNCHANGED unit

ReadHeader ==
  /\ pc = "read_header"
  /\ Read(0, HeaderLen)
  /\ pc' = "disarm_header"
  /\ UNCHANGED <<calls, req, s, r, encoded, i, j, invalid, result0, rv, diag, peer,
                 reply, alarm, handler>>
  /\ UNCHANGED unit

\* variant of DisarmHeader that tests ret < 0 instead of ret != 18
DisarmHeaderErrorOnly ==
  /\ pc = "disarm_header"
  /\ Disarm
  /\ IF ret < 0
     THEN Return(0 - 1, "read")
     ELSE /\ pc' = "parse"
          /\ UNCHANGED <<rv, diag>>
  /\ UNCHANGED <<calls, req, s, r, encoded, i, j, invalid, ret, result, result0,
                 trace, wire, peer, reply>>
  /\ UNCHANGED unit

DisarmHeader ==
  /\ pc = "disarm_header"
  /\ Disarm
  /\ IF ret # HeaderLen
     THEN Return(0 - 1, "read")
     ELSE /\ pc' = "parse"
          /\ UNCHANGED <<rv, diag>>
  /\ UNCHANGED <<calls, req, s, r, encoded, i, j, invalid, ret, result, result0,
                 trace, wire, peer, reply>>
  /\ UNCHANGED unit

\* lines 229-248: the fields are decoded from encoded, the request frame
ParseHeader ==
  /\ pc = "parse"
  /\ LET inv0 == (encoded[1] # 126)
         v == hex2b(SubSeq(encoded, 2, 3), inv0)
         a == hex2b(SubSeq(encoded, 4, 5), v.invalid)
         d == hex2b(SubSeq(encoded, 6, 7), a.invalid)
         f == hex2b(SubSeq(encoded, 8, 9), d.invalid)
         l == hex4b(SubSeq(encoded, 10, 13), f.invalid)
     IN /\ r' = [version |-> v.val, address |-> a.val, device |-> d.val,
                 function |-> f.val, length |-> l.val]
        /\ invalid' = l.invalid
        /\ IF l.invalid
           THEN Return(0 - 1, "Non-hexidecimal character")
           ELSE IF length_checksum(s.length % 4096) # (s.length \div 4096) * 4096
           THEN Return(0 - 1, "Length code incorrect")
           ELSE /\ pc' = "arm_tail"
                /\ UNCHANGED <<rv, diag>>
  /\ UNCHANGED <<calls, req, s, encoded, i, j, ret, result, result0, trace, wire,
                 peer, reply, alarm, handler>>
  /\ UNCHANGED unit

ArmTail ==
  /\ pc = "arm_tail"
  /\ Arm
  /\ pc' = "read_tail"
  /\ UNCHANGED <<calls, req, s, r, encoded, i, j, invalid, ret, result, result0, rv,
                 diag, trace, wire, peer, reply>>
  /\ UNCHANGED unit

ReadTail ==
  /\ pc = "read_tail"
  /\ Read(InfoOffset + TailOffset, r.length)
  /\ pc' = "disarm_tail"
  /\ UNCHANGED <<calls, req, s, r, encoded, i, j, invalid, result0, rv, diag, peer,
                 reply, alarm, handler>>
  /\ UNCHANGED unit

DisarmTail ==
  /\ pc = "disarm_tail"
  /\ Disarm
  /\ IF ret # r.length
     THEN /\ Return(0 - 1, "info read")
          /\ j' = j
     ELSE /\ pc' = "validate"
          /\ j' = 0
          /\ UNCHANGED <<rv, diag>>
  /\ UNCHANGED <<calls, req, s, r, encoded, i, invalid, ret, result, result0,
                 trace, wire, peer, reply>>
  /\ UNCHANGED unit

\* !((c >= '0' && c > '9') || (c >= 'a' && c <= 'f') || (c >= 'A' && c <= 'F'))
RejectedByte(c) ==
  ~ ((c >= 48 /\ c > 57) \/ (c >= 97 /\ c <= 102) \/ (c >= 65 /\ c <= 70))

\* lines 269-278, the code after the validation loop
AfterLoop ==
  LET lo == ResultByte(InfoOffset + req.info_length)
      hi == ResultByte(InfoOffset + req.info_length + 1)
      checksum == lo + 256 * hi
      body == [k \in 1..(req.info_length + 12) |-> ResultByte(k)]
      sum == overall_checksum(body, req.info_length + 12)
  IN IF ~ (sum.small /\ sum.low = checksum)
     THEN Return(0 - 1, "Checksum mismatch")
     ELSE Return(r.function, IF r.function # NORMAL THEN "Return code" ELSE NoValue)

\* one evaluation of the loop condition j < r.length + 4 and what follows it:
\* an iteration of the body (which ends in i++, j is left alone) or the code after
\* the loop
Validate ==
  /\ pc = "validate"
  /\ IF j < r.length + 4
     THEN IF RejectedByte(ResultByte(InfoOffset + j))
          THEN /\ Return(0 - 1, "Non-hexidecimal character")
               /\ i' = i
          ELSE /\ i' = (i + 1) % PtrWrap
               /\ UNCHANGED <<pc, rv, diag>>
     ELSE /\ AfterLoop
          /\ i' = i
  /\ UNCHANGED <<calls, req, s, r, encoded, j, invalid, ret, result, result0, trace,
                 wire, peer, reply, alarm, handler>>
  /\ UNCHANGED unit

\* the peer's reply reaches the input queue of the serial port, k bytes at a time
PeerSend(k) ==
  /\ peer # <<>>
  /\ pc \notin {"exited", "aborted", "killed"}
  /\ wire' = wire \o Take(peer, k)
  /\ peer' = Drop(peer, k)
  /\ UNCHANGED <<pc, calls, req, s, r, encoded, i, j, invalid, ret, result, result0,
                 rv, diag, trace, reply, alarm, handler>>
  /\ UNCHANGED unit

Next ==
  \/ \E a \in Addresses, c \in Commands, inf \in Infos : Call(a, c, inf)
  \/ Encode
  \/ Flush
  \/ Write
  \/ Drain
  \/ ArmHeader
  \/ ReadHeader
  \/ DisarmHeader
  \/ ParseHeader
  \/ ArmTail
  \/ ReadTail
  \/ DisarmTail
  \/ Validate
  \/ AlarmFires
  \/ \E k \in ChunkSizes : PeerSend(k)

Spec == Init /\ [][Next]_vars

\* the one request the program makes: seplos_protocol_version(fd, 0) asks address 0
\* for PROTOCOL_VER_GET with the single info byte pack_info = 0
ProgramCall == Call(0, PROTOCOL_VER_GET, <<0>>)

Step ==
  \/ Encode \/ Flush \/ Write \/ Drain \/ ArmHeader \/ ReadHeader \/ DisarmHeader
  \/ ParseHeader \/ ArmTail \/ ReadTail \/ DisarmTail \/ Validate

ProgramNext ==
  \/ ProgramCall
  \/ Step
  \/ AlarmFires
  \/ \E k \in ChunkSizes : PeerSend(k)

\* the program's own request, under the assumption that every step of bms_command
\* that is enabled is eventually taken: the transport operations return and the
\* processor keeps running the code
FairSpec == Init /\ [][ProgramNext]_vars /\ WF_vars(Step)

(***************************************************************************)
(* The codec functions on their own: every input of a function is an       *)
(* initial state, and the one step from it applies the function.           *)
(***************************************************************************)
UnitInput(fn, arg) ==
  [fn |-> fn, arg |-> arg, val |-> 0, invalid |-> FALSE, done |-> FALSE]

\* the 16-bit values that occur as length fields, and the two ends of the range
HexWords == {length_field(n) : n \in 0..4095} \cup {0, 65535}

UnitInputs ==
  {UnitInput("hex2", v) : v \in 0..255}
  \cup {UnitInput("hex4", w) : w \in HexWords}
  \cup {UnitInput("length", n) : n \in 0..4095}
  \cup {UnitInput("hex1b", c) : c \in 0..255}

CodecInit ==
  /\ Quiescent
  /\ unit \in UnitInputs

UnitResult(res) ==
  /\ unit' = [unit EXCEPT !.val = res.val, !.invalid = res.invalid, !.done = TRUE]
  /\ UNCHANGED <<pc, calls, req, s, r, encoded, i, j, invalid, ret, result, result0,
                 rv, diag, trace, wire, peer, reply, alarm, handler>>

\* hex2b(hex2(v)) with the flag cleared, as lines 184-187 and 229-237 combine them
RoundTrip2 ==
  /\ unit.fn = "hex2"
  /\ ~ unit.done
  /\ UnitResult(hex2b(hex2(unit.arg), FALSE))

\* hex4b(hex4(w)) with the flag cleared, as lines 188 and 229-238 combine them
RoundTrip4 ==
  /\ unit.fn = "hex4"
  /\ ~ unit.done
  /\ UnitResult(hex4b(hex4(unit.arg), FALSE))

\* the length field for n characters of info
LengthField ==
  /\ unit.fn = "length"
  /\ ~ unit.done
  /\ UnitResult([val |-> length_field(unit.arg), invalid |-> FALSE])

\* hex1b(c, &invalid) with the flag cleared
DecodeNibble ==
  /\ unit.fn = "hex1b"
  /\ ~ unit.done
  /\ UnitResult(hex1b(unit.arg, FALSE))

CodecNext ==
  \/ RoundTrip2
  \/ RoundTrip4
  \/ LengthField
  \/ DecodeNibble

CodecSpec == CodecInit /\ [][CodecNext]_vars


(***************************************************************************)
(* Vocabulary of the properties.                                           *)
(***************************************************************************)
TransportOrder == <<"flush", "write", "drain", "read", "read">>

OpsOf(t) == [k \in 1..Len(t) |-> t[k].op]

ReadsIn(t) == Cardinality({k \in 1..Len(t) : t[k].op = "read"})

\* the header read has returned with something else than a full header
HeaderShort == Len(trace) >= 4 /\ trace[4].op = "read" /\ trace[4].got # HeaderLen

\* write() has returned without taking the whole frame
WriteShort == Len(trace) >= 2 /\ trace[2].op = "write" /\ trace[2].got < trace[2].n

\* both reads have returned and each returned as many bytes as it asked for
BothReadsFull ==
  /\ Len(trace) = 5
  /\ trace[4].got = trace[4].n
  /\ trace[5].got = trace[5].n

IsHexChar(c) == (c >= 48 /\ c <= 57) \/ (c >= 65 /\ c <= 70) \/ (c >= 97 /\ c <= 102)

HexValue(c) == IF c <= 57 THEN c - 48 ELSE IF c <= 70 THEN c - 55 ELSE c - 87

HexNumber(f, lo, hi) ==
  LET RECURSIVE Go(_, _)
      Go(k, acc) == IF k > hi THEN acc ELSE Go(k + 1, acc * 16 + HexValue(f[k]))
  IN Go(lo, 0)

\* f is a frame with valid framing, hex characters, length checksum and checksum
WellFormed(f) ==
  /\ Len(f) >= 18
  /\ f[1] = 126
  /\ f[Len(f)] = 13
  /\ \A k \in 2..(Len(f) - 1) : IsHexChar(f[k])
  /\ LET lf == HexNumber(f, 10, 13)
         n == lf % 4096
     IN /\ Len(f) = 18 + n
        /\ length_checksum(n) = (lf \div 4096) * 4096
        /\ HexNumber(f, 14 + n, 17 + n) = (0 - SumRange(f, 2, 13 + n)) % 65536

FunctionOf(f) == HexNumber(f, 8, 9)

\* f is a frame whose info region holds a byte that is not a hex character
InfoHasNonHex(f) ==
  /\ Len(f) >= 18
  /\ \E k \in 14..(Len(f) - 5) : ~ IsHexChar(f[k])

(***************************************************************************)
(* Properties of bms_command.                                              *)
(***************************************************************************)

\* C1: in an invocation that reaches the tail read the transport sees exactly
\* flush, write, drain, read of the 18-byte header, read of the tail, once each and in
\* this order; every read comes after the drain, which comes after the write.
C1_TransportSequence ==
  /\ pc \in {"disarm_tail", "validate"} => ReadsIn(trace) = 2
  /\ ReadsIn(trace) >= 2 =>
       /\ OpsOf(trace) = TransportOrder
       /\ trace[4].n = HeaderLen
  /\ \A k \in 1..Len(trace) :
       trace[k].op = "read" =>
         \E d \in 1..(k - 1) :
           /\ trace[d].op = "drain"
           /\ \E w \in 1..(d - 1) : trace[w].op = "write"

C1_Witness == pc = "validate" /\ ReadsIn(trace) = 2 /\ Len(trace) = 5

\* C2: the validation of the response that follows the two reads ends for every
\* response, so that the invocation returns to its caller.
C2_ValidationTerminates == (pc = "validate") ~> (pc = "returned")

\* C3: when the header read returns fewer than 18 bytes, bms_command returns -1 with
\* the read diagnostic (not the hex, length or checksum one) and the header read is
\* the last transport operation of the invocation.
C3_ShortHeaderIsTimeout ==
  HeaderShort =>
    /\ Len(trace) = 4
    /\ pc \in {"disarm_header", "returned"}
    /\ pc = "returned" => (rv = <<0 - 1>> /\ diag = "read")

C3_Witness == pc = "returned" /\ HeaderShort /\ trace[4].got = 6 /\ diag = "read"

\* C4: a request whose info is longer than 2047 bytes is refused before any
\* transport operation takes place.
C4_OversizeRejected == req.info_length > 2047 => trace = <<>>

\* C5: when the peer's reply is a well-formed frame and both reads deliver it,
\* bms_command returns the function byte of that frame.
C5_StatusIsReplyFunction ==
  (pc = "returned" /\ WellFormed(reply) /\ BothReadsFull) => rv = <<FunctionOf(reply)>>

\* C6: a reply with a non-hex byte in its info region ends in the return of the
\* malformed-hex error.
C6_NonHexRejected ==
  (pc = "validate" /\ InfoHasNonHex(reply))
    ~> (pc = "returned" /\ rv = <<0 - 1>> /\ diag = "Non-hexidecimal character")

\* C7: when write() takes fewer bytes than the frame has, bms_command returns an
\* error to its caller: the process does not exit, and there is no drain and no read.
C7_ShortWriteIsIoError ==
  WriteShort =>
    /\ Len(trace) = 2
    /\ pc # "exited"
    /\ pc = "returned" => rv = <<0 - 1>>

\* C8: the byte count handed to write() is 18 + 2 * len(info).
C8_BytesWritten ==
  (Len(trace) >= 2 /\ trace[2].op = "write") => trace[2].n = 18 + 2 * req.info_length

\* C9: in the emitted frame the info bytes are followed by four uppercase hex
\* characters, most significant first, of the 16-bit negated sum of the bytes from
\* version to the end of info, and then by '\r'.
C9_ChecksumRegion ==
  pc \in {"flush", "write", "drain"} =>
    LET len == req.info_length
        cks == (0 - SumRange(encoded, 2, 13 + len)) % 65536
    IN /\ SubSeq(encoded, 14 + len, 17 + len) = hex4(cks)
       /\ encoded[18 + len] = 13

\* C10: when bms_command returns an error the caller's result frame is as it was at
\* entry.
C10_NoPartialResult ==
  (pc = "returned" /\ rv = <<0 - 1>>) => result = result0

\* C11: whenever bms_command has returned, no alarm is armed and SIGALRM has its
\* default disposition; an alarm is armed only between the alarm(10) before a read
\* and the alarm(0) after it, with got_alarm installed, so it never ends the process.
C11_AlarmDoesNotLeak ==
  /\ pc \in {"idle", "returned", "encode"} => (alarm = 0 /\ handler = "SIG_DFL")
  /\ alarm > 0 =>
       /\ pc \in {"read_header", "disarm_header", "read_tail", "disarm_tail"}
       /\ handler = "got_alarm"
  /\ pc # "killed"

C11_Witness ==
  /\ pc = "returned"
  /\ Len(trace) = 5
  /\ rv = <<0 - 1>>
  /\ diag = "info read"
  /\ alarm = 0
  /\ handler = "SIG_DFL"

\* C12: decoding the hex characters of an encoded header field gives the field back:
\* hex2b(hex2(v)) = v for every 8-bit v and hex4b(hex4(w)) = w for every 16-bit w,
\* and the invalid flag stays clear.
C12_HexRoundTrip ==
  (unit.done /\ unit.fn \in {"hex2", "hex4"}) =>
    (unit.val = unit.arg /\ ~ unit.invalid)

\* C13: for every 12-bit n the length field has n in its low 12 bits and, in its high
\* nibble, lcs = (((~sum) & 0xFF) + 1) & 0xF with sum the sum of the three nibbles of
\* n; for n = 2 the field is 0xE002.
C13_LengthField ==
  (unit.done /\ unit.fn = "length") =>
    LET n == unit.arg
        sum == ((n \div 256) % 16) + ((n \div 16) % 16) + (n % 16)
        lcs == ((255 - (sum % 256)) + 1) % 16
    IN /\ unit.val % 4096 = n
       /\ unit.val \div 4096 = lcs
       /\ n = 2 => unit.val = 57346

C13_Witness == unit.done /\ unit.fn = "length" /\ unit.arg = 2 /\ unit.val = 57346

\* the header read has returned a full header, which is now in the result frame
HeaderFull == Len(trace) >= 4 /\ trace[4].op = "read" /\ trace[4].got = HeaderLen

\* the twelve characters version..length of the received header are hex characters
HeaderHex == \A k \in 2..13 : IsHexChar(result[k])

\* the length field of the received header
ReceivedLength == HexNumber(result, 10, 13)

\* f is a frame with valid framing, hex characters and length checksum, and as long
\* as its length field says; nothing is said about its checksum
FramedWell(f) ==
  /\ Len(f) >= 18
  /\ f[1] = 126
  /\ f[Len(f)] = 13
  /\ \A k \in 2..(Len(f) - 1) : IsHexChar(f[k])
  /\ LET lf == HexNumber(f, 10, 13)
     IN /\ Len(f) = 18 + (lf % 4096)
        /\ length_checksum(lf % 4096) = (lf \div 4096) * 4096

\* the checksum f carries is the one recomputed over its bytes version..info
ChecksumMatches(f) ==
  LET n == HexNumber(f, 10, 13) % 4096
  IN HexNumber(f, 14 + n, 17 + n) = (0 - SumRange(f, 2, 13 + n)) % 65536

\* C14: a response header whose length checksum does not match the low 12 bits of its
\* length field makes bms_command return the length-checksum error, and the tail is
\* not read.
C14_LengthChecksumVerified ==
  (/\ HeaderFull
   /\ result[1] = 126
   /\ HeaderHex
   /\ length_checksum(ReceivedLength % 4096) # (ReceivedLength \div 4096) * 4096)
  => /\ Len(trace) = 4
     /\ pc \in {"disarm_header", "parse", "returned"}
     /\ pc = "returned" => (rv = <<0 - 1>> /\ diag = "Length code incorrect")

\* C15: a response that is well-formed apart from its checksum is accepted exactly
\* when the checksum recomputed over its own bytes equals the one it carries.
C15_ChecksumDecidesAcceptance ==
  (pc = "returned" /\ BothReadsFull /\ FramedWell(reply)) =>
    ((rv # <<0 - 1>>) <=> ChecksumMatches(reply))

\* C16: a received header whose first byte is not '~' makes bms_command return the
\* error of its framing test, never a status.
C16_StartByteRequired ==
  (pc = "returned" /\ HeaderFull /\ result[1] # 126) =>
    (rv = <<0 - 1>> /\ diag = "Non-hexidecimal character")

\* C17: in a transaction in which both reads took place, the bytes asked of the peer
\* are 18 + n, with n the low 12 bits of the length field of the received header.
C17_BytesRequested ==
  (Len(trace) = 5 /\ HeaderFull /\ HeaderHex) =>
    trace[4].n + trace[5].n = 18 + (ReceivedLength % 4096)

\* the bytes the reads of the current invocation have stored in the result frame
Delivered ==
  (IF Len(trace) >= 4 /\ trace[4].got > 0 THEN SubSeq(result, 1, trace[4].got) ELSE <<>>)
  \o (IF Len(trace) >= 5 /\ trace[5].got > 0
      THEN SubSeq(result, InfoOffset + TailOffset + 1, InfoOffset + TailOffset + trace[5].got)
      ELSE <<>>)

\* C18: in every invocation, also one that follows an invocation that ended in an
\* error, the first transport operation is the flush, and what the reads deliver is
\* taken from the reply to this invocation's request only: the bytes delivered,
\* those pending in the input queue and those still on their way are, in this
\* order, that reply, so that no byte pending before the flush is among them.
C18_FlushDiscardsStale ==
  Len(trace) >= 1 =>
    /\ trace[1].op = "flush"
    /\ Delivered \o wire \o peer = reply

\* bytes of the first reply were pending at the flush of the second invocation, and
\* both of its reads have delivered bytes
C18_Witness ==
  /\ calls = 2
  /\ Len(trace) = 5
  /\ trace[1].got > 0
  /\ trace[4].got = HeaderLen
  /\ trace[5].got = 1

\* C19: for a character in [0-9A-Fa-f] hex1b returns its digit value, 0..15, the
\* same for an upper and a lower case letter, and leaves the invalid flag as it
\* was; for any other character it sets the invalid flag.
C19_DecodeNibble ==
  (unit.done /\ unit.fn = "hex1b") =>
    IF IsHexChar(unit.arg)
    THEN unit.val = HexValue(unit.arg) /\ unit.val \in 0..15 /\ ~ unit.invalid
    ELSE unit.invalid

\* C20: the tail read starts at result->info[5] and stays inside the info array of
\* the caller's result frame, 5 + r.length <= 4100, whatever header the peer has
\* sent; and for info_length < 4096 the frame the encoder builds, terminator
\* included, and the info_length + 18 bytes given to write lie within the frame
\* structure of 4113 bytes.
C20_MemorySafety ==
  /\ Len(trace) >= 5 =>
       /\ trace[5].op = "read"
       /\ trace[5].n = r.length
       /\ TailOffset + trace[5].n <= InfoSize
  /\ (req.info_length < 4096 /\ pc \notin {"idle", "encode"}) =>
       /\ Len(encoded) = req.info_length + 18
       /\ encoded[Len(encoded)] = 13
       /\ Len(encoded) <= FrameSize
  /\ Len(trace) >= 2 =>
       /\ trace[2].op = "write"
       /\ trace[2].n = req.info_length + 18
       /\ trace[2].n <= FrameSize

\* the longest request has been written whole and the tail of a reply has been read
C20_Witness ==
  /\ req.info_length = 4095
  /\ Len(encoded) = FrameSize
  /\ Len(trace) = 5
  /\ trace[2].got = FrameSize
  /\ trace[4].got = HeaderLen
  /\ trace[5].got = 1

====
